---- MODULE Spec2Model ----
(***************************************************************************)
(* Border distance calculator (twitchard/borderdistance).                  *)
(*                                                                         *)
(*   lib/newtonsmethod.js   minimize / tunableMinimize (Newton's method)   *)
(*   scripts/process.js     polygonToPaths (segment builder)               *)
(*   lib/borderdistance.js  distanceToBorder, closestToGeodesic            *)
(*                                                                         *)
(* Specifications:                                                         *)
(*   SpecMin    the minimizer, one action per loop iteration               *)
(*   SpecBuild  the segment builder applied to a polygon                   *)
(*   Spec       distanceToBorder called on a loaded border                 *)
(*   SpecSolver closestToGeodesic called on one segment                    *)
(*   SpecFar    distanceToBorder on many far segments and one close one    *)
(*   SpecLegacy BorderDistance.distanceToBorder of borderdistance.js,      *)
(*              called again and again on its shared segment array         *)
(***************************************************************************)
EXTENDS Integers, Sequences, FiniteSets, TLC

VARIABLES
    \* ---- tunableMinimize (lib/newtonsmethod.js) ----
    mf,        \* the function f being minimized (an input)
    cur,       \* let cur
    iter,      \* the loop counter i
    points,    \* const points
    updates,   \* history: Newton updates computed so far
    divisors,  \* history: the second-derivative estimate each update divided by
    mpc,       \* "loop" | "returned" | "threw"
    mret,      \* the returned value: [conv |-> FALSE] is the sentinel false
    caught,    \* history: the catch block ran
    \* ---- polygonToPaths (scripts/process.js) ----
    polygon,   \* the argument: a list of coordinate arrays
    bpc,       \* "idle" | "returned" | "threw"
    paths,     \* the returned segment list
    \* ---- distanceToBorder (lib/borderdistance.js) ----
    border,    \* the caller's segments array
    given,     \* history: the caller's array as it was when the call was made
    pc,        \* "idle" | "returned" | "threw"
    q,         \* the query point (latb, lonb)
    oracle,    \* what minimize returned for each segment of the border
    sorted,    \* the local, lowerBound-sorted copy
    evaluated, \* history: how many segments closestOnSegment was called on
    ret,       \* the returned NearestResult
    err        \* the error raised, "none" when none

minVars   == <<mf, cur, iter, points, updates, divisors, mpc, mret, caught>>
buildVars == <<polygon, bpc, paths>>
distVars  == <<border, given, pc, q, oracle, sorted, evaluated, ret, err>>
vars      == <<minVars, buildVars, distVars>>

(***************************************************************************)
(* JavaScript Numbers.  A Number is a pair <<n, d>>: the rational n/d in   *)
(* lowest terms when d > 0, +Infinity <<1, 0>>, -Infinity <<-1, 0>> and    *)
(* NaN <<0, 0>>.  Arithmetic is exact on the rationals (no rounding) and   *)
(* follows IEEE 754 on the special values; the sign of zero is not kept    *)
(* (x/0 is +Infinity or -Infinity by the sign of x alone).                 *)
(***************************************************************************)
NaN    == <<0, 0>>
PosInf == <<1, 0>>
NegInf == <<-1, 0>>

AbsInt(a) == IF a < 0 THEN -a ELSE a
SignInt(a) == IF a < 0 THEN -1 ELSE IF a > 0 THEN 1 ELSE 0

RECURSIVE Gcd(_, _)
Gcd(a, b) == IF b = 0 THEN a ELSE Gcd(b, a % b)

Norm(n, d) ==
    IF d = 0 THEN <<SignInt(n), 0>>
    ELSE LET g == Gcd(AbsInt(n), AbsInt(d))
             s == SignInt(d)
         IN  <<(s * n) \div g, (s * d) \div g>>

Num(i) == <<i, 1>>
IsNaN(a) == a = NaN
IsFinite(a) == a[2] > 0

RNeg(a) == <<-a[1], a[2]>>

RAdd(a, b) ==
    IF ~IsFinite(a) \/ ~IsFinite(b)
    THEN IF IsNaN(a) \/ IsNaN(b) THEN NaN
         ELSE IF ~IsFinite(a) /\ ~IsFinite(b)
              THEN IF a = b THEN a ELSE NaN
              ELSE IF ~IsFinite(a) THEN a ELSE b
    ELSE LET g == Gcd(a[2], b[2])
         IN  Norm(a[1] * (b[2] \div g) + b[1] * (a[2] \div g),
                  (a[2] \div g) * b[2])

RSub(a, b) == RAdd(a, RNeg(b))

RMul(a, b) ==
    IF ~IsFinite(a) \/ ~IsFinite(b)
    THEN <<SignInt(a[1]) * SignInt(b[1]), 0>>
    ELSE LET g1 == Gcd(AbsInt(a[1]), b[2])
             g2 == Gcd(AbsInt(b[1]), a[2])
         IN  Norm((a[1] \div g1) * (b[1] \div g2),
                  (a[2] \div g2) * (b[2] \div g1))

\* 1/b: 1/0 is Infinity, 1/Infinity is 0, 1/NaN is NaN.
RInv(b) ==
    IF b[2] = 0 THEN (IF b[1] = 0 THEN NaN ELSE Num(0))
    ELSE IF b[1] = 0 THEN PosInf
    ELSE Norm(b[2], b[1])

RDiv(a, b) == RMul(a, RInv(b))

RAbs(a) == <<AbsInt(a[1]), a[2]>>

\* a < b: false as soon as either side is NaN.
RLt(a, b) ==
    /\ ~IsNaN(a)
    /\ ~IsNaN(b)
    /\ a # b
    /\ RSub(a, b)[1] < 0

(***************************************************************************)
(* lib/newtonsmethod.js                                                    *)
(***************************************************************************)
NUM_ITERS == 15
STEP_SIZE == <<1, 100>>
CONVERGENCE_MARGIN == <<1, 1000>>

\* The functions handed to minimize.  "quad" is x => Math.pow(x - c, 2) / s
\* (the test's function is c = 10, s = 1), "abs" is x => Math.abs(x - c),
\* "lin" is x => x and "const" is x => c.  A function with throws = TRUE
\* raises an error when called with x > lim.
Fn(kind, c, s, throws, lim) ==
    [kind |-> kind, c |-> c, s |-> s, throws |-> throws, lim |-> lim]

TestFunction == Fn("quad", 10, 1, FALSE, 0)

F(f, x) ==
    CASE f.kind = "quad" ->
            LET e == RSub(x, Num(f.c)) IN RDiv(RMul(e, e), Num(f.s))
      [] f.kind = "abs"  -> RAbs(RSub(x, Num(f.c)))
      [] f.kind = "lin"  -> x
      [] OTHER           -> Num(f.c)

Throws(f, x) == f.throws /\ RLt(Num(f.lim), x)

estimateFirstDerivative(f, x, stepSize) ==
    RDiv(RSub(F(f, RAdd(x, stepSize)), F(f, RSub(x, stepSize))),
         RMul(Num(2), stepSize))

\* The stepSize estimateSecondDerivative hands to estimateFirstDerivative:
\* estimateFirstDerivative(f, x + stepSize, x), so x itself.
InnerStepSize(x, stepSize) == x

estimateSecondDerivative(f, x, stepSize) ==
    RDiv(RSub(estimateFirstDerivative(f, RAdd(x, stepSize), InnerStepSize(x, stepSize)),
              estimateFirstDerivative(f, RSub(x, stepSize), InnerStepSize(x, stepSize))),
         RMul(Num(2), stepSize))

\* The arguments f is called with while one update is computed.
FirstDerivativeArgs(x, stepSize) == {RAdd(x, stepSize), RSub(x, stepSize)}

UpdateArgs(x, stepSize) ==
    FirstDerivativeArgs(x, stepSize)
        \cup FirstDerivativeArgs(RAdd(x, stepSize), InnerStepSize(x, stepSize))
        \cup FirstDerivativeArgs(RSub(x, stepSize), InnerStepSize(x, stepSize))

UpdateThrows(f, x, stepSize) ==
    \E a \in UpdateArgs(x, stepSize) : Throws(f, a)

\* const next = cur - f'(cur) / f''(cur)
NewtonUpdate(f, x, stepSize) ==
    RSub(x, RDiv(estimateFirstDerivative(f, x, stepSize),
                 estimateSecondDerivative(f, x, stepSize)))

\* if (Math.abs(cur-next) < convergenceMargin)
Converged(x, next, convergenceMargin) ==
    RLt(RAbs(RSub(x, next)), convergenceMargin)

\* (mutant) the loop runs once more than numIters times
LoopRunsOnceMore(i, numIters) == i <= numIters + 1

\* for (let i = 1; i <= numIters; i++)
LoopRuns(i, numIters) == i <= numIters

\* (mutant) no catch block: the error reaches the caller
CatchOutcomeRethrow == "threw"

\* catch (err) { return false }
CatchOutcome == "returned"

NotConverged == [conv |-> FALSE, x |-> NaN]
Returned(x)  == [conv |-> TRUE, x |-> x]

Functions ==
    { Fn("quad", c, 1, FALSE, 0) : c \in {0, 3, 10} }
        \cup { Fn("quad", 10, 4000, FALSE, 0),
               Fn("quad", 10, 1, TRUE, 12),
               Fn("abs", 0, 1, FALSE, 0),
               Fn("abs", 3, 1, FALSE, 0),
               Fn("lin", 0, 1, FALSE, 0),
               Fn("const", 3, 1, FALSE, 0) }

InitialGuesses == { Num(0), <<1, 2>>, Num(5), Num(10), Num(20), Num(-5) }

\* The calls minimize(f, initialGuess) explored; the last starts within the
\* convergence margin of the minimum.
MinCalls ==
    (Functions \X InitialGuesses)
        \cup { <<Fn("quad", 3, 1, FALSE, 0), <<6001, 2000>> >> }

MinIdle ==
    /\ mf = Fn("const", 0, 1, FALSE, 0)
    /\ cur = NaN
    /\ iter = 0
    /\ points = <<>>
    /\ updates = 0
    /\ divisors = <<>>
    /\ mpc = "idle"
    /\ mret = NotConverged
    /\ caught = FALSE

\* tunableMinimize(NUM_ITERS, STEP_SIZE, CONVERGENCE_MARGIN, f, initialGuess)
\* has run up to the loop.
MinInit ==
    /\ \E call \in MinCalls :
          /\ mf = call[1]
          /\ cur = call[2]
    /\ iter = 1
    /\ points = <<cur>>
    /\ updates = 0
    /\ divisors = <<>>
    /\ mpc = "loop"
    /\ mret = NotConverged
    /\ caught = FALSE

\* One iteration whose update converges: return next.
MinConverge ==
    /\ mpc = "loop"
    /\ LoopRuns(iter, NUM_ITERS)
    /\ ~UpdateThrows(mf, cur, STEP_SIZE)
    /\ LET next == NewtonUpdate(mf, cur, STEP_SIZE)
       IN  /\ Converged(cur, next, CONVERGENCE_MARGIN)
           /\ mret' = Returned(next)
    /\ mpc' = "returned"
    /\ updates' = updates + 1
    /\ divisors' = Append(divisors, estimateSecondDerivative(mf, cur, STEP_SIZE))
    /\ UNCHANGED <<mf, cur, iter, points, caught>>
    /\ UNCHANGED <<buildVars, distVars>>

\* One iteration whose update does not converge: cur = next, points.push(next).
MinAdvance ==
    /\ mpc = "loop"
    /\ LoopRuns(iter, NUM_ITERS)
    /\ ~UpdateThrows(mf, cur, STEP_SIZE)
    /\ LET next == NewtonUpdate(mf, cur, STEP_SIZE)
       IN  /\ ~Converged(cur, next, CONVERGENCE_MARGIN)
           /\ cur' = next
           /\ points' = Append(points, next)
    /\ iter' = iter + 1
    /\ updates' = updates + 1
    /\ divisors' = Append(divisors, estimateSecondDerivative(mf, cur, STEP_SIZE))
    /\ UNCHANGED <<mf, mpc, mret, caught>>
    /\ UNCHANGED <<buildVars, distVars>>

\* One iteration in which a call of f raises: the catch block returns false.
MinCatch ==
    /\ mpc = "loop"
    /\ LoopRuns(iter, NUM_ITERS)
    /\ UpdateThrows(mf, cur, STEP_SIZE)
    /\ mpc' = CatchOutcome
    /\ mret' = NotConverged
    /\ caught' = TRUE
    /\ UNCHANGED <<mf, cur, iter, points, updates, divisors>>
    /\ UNCHANGED <<buildVars, distVars>>

\* The loop has run numIters times: return false.
MinExhaust ==
    /\ mpc = "loop"
    /\ ~LoopRuns(iter, NUM_ITERS)
    /\ mpc' = "returned"
    /\ mret' = NotConverged
    /\ UNCHANGED <<mf, cur, iter, points, updates, divisors, caught>>
    /\ UNCHANGED <<buildVars, distVars>>

MinNext == MinConverge \/ MinAdvance \/ MinCatch \/ MinExhaust

BuildIdle ==
    /\ polygon = <<>>
    /\ bpc = "idle"
    /\ paths = <<>>

DistIdle ==
    /\ border = <<>>
    /\ given = <<>>
    /\ pc = "idle"
    /\ q = [lat |-> 0, lon |-> 0]
    /\ oracle = <<>>
    /\ sorted = <<>>
    /\ evaluated = 0
    /\ ret = [distance |-> 0, point |-> <<0, 0>>]
    /\ err = "none"

InitMin == MinInit /\ BuildIdle /\ DistIdle

SpecMin == InitMin /\ [][MinNext]_vars

(***************************************************************************)
(* The geodesic provider (GeographicLib, WGS84).  The model's points lie   *)
(* on the equator: every latitude is 0 and a longitude is a whole number   *)
(* of units, so the geodesic between two points is the arc of the equator  *)
(* between them and its length is the difference of the longitudes.        *)
(***************************************************************************)
Point(lat, lon) == [lat |-> lat, lon |-> lon]

\* earth.Inverse(lata, lona, latb, lonb).s12
distanceBetween(lata, lona, latb, lonb) == AbsInt(lona - lonb) + AbsInt(lata - latb)

(***************************************************************************)
(* scripts/process.js                                                      *)
(***************************************************************************)
\* A missing array element.
Undefined == <<>>

MaxInt(a, b) == IF a > b THEN a ELSE b

\* _.tail(array): all but the first element; [] for [].
tail(array) == IF array = <<>> THEN <<>> ELSE Tail(array)

\* _.initial(array): all but the last element; [] for [].
initial(array) == IF array = <<>> THEN <<>> ELSE SubSeq(array, 1, Len(array) - 1)

At(array, i) == IF i <= Len(array) THEN array[i] ELSE Undefined

\* (mutant) a zip that stops at the end of the shorter array
zipShortest(a, b) ==
    [i \in 1..(IF Len(a) < Len(b) THEN Len(a) ELSE Len(b)) |-> <<a[i], b[i]>>]

\* _.zip(a, b): pairs up to the length of the longer array, undefined where
\* the shorter one has ended.
zip(a, b) == [i \in 1..MaxInt(Len(a), Len(b)) |-> <<At(a, i), At(b, i)>>]

\* Reading coord[0][1] or coord[1][1] of a pair with a missing member raises
\* a TypeError.
SegmentThrows(coord) == coord[1] = Undefined \/ coord[2] = Undefined

\* The object built for one pair: a coordinate is [lon, lat].
Segment(coord) ==
    [start    |-> Point(coord[1][2], coord[1][1]),
     end      |-> Point(coord[2][2], coord[2][1]),
     distance |-> distanceBetween(coord[1][2], coord[1][1],
                                  coord[2][2], coord[2][1])]

\* [a, b, c, d] -> [[a, b], [b, c], [c, d]]
Pairs(coordinateArray) == initial(zip(coordinateArray, tail(coordinateArray)))

RECURSIVE flatten(_)
flatten(arrays) ==
    IF arrays = <<>> THEN <<>> ELSE Head(arrays) \o flatten(Tail(arrays))

Thrown(name) == [threw |-> TRUE, error |-> name, value |-> <<>>]
Value(v)     == [threw |-> FALSE, error |-> "none", value |-> v]

\* (mutant) the older process script: every coordinate array is concatenated
\* into one list and each consecutive pair of that list becomes a segment.
processConcatenated(poly) ==
    LET lines == flatten(poly)
    IN  Value([i \in 1..(Len(lines) - 1) |-> Segment(<<lines[i], lines[i + 1]>>)])

polygonToPaths(poly) ==
    LET coords == [r \in 1..Len(poly) |-> Pairs(poly[r])]
    IN  IF \E r \in 1..Len(poly) : \E k \in 1..Len(coords[r]) :
                SegmentThrows(coords[r][k])
        THEN Thrown("TypeError")
        ELSE Value(flatten([r \in 1..Len(poly) |->
                    [k \in 1..Len(coords[r]) |-> Segment(coords[r][k])]]))

\* ---- inputs ----
MaxRings  == 2
MaxPoints == 5

\* Longitudes are even so that the midpoint of a segment is a point too.
Lons == {0, 2, 4}

\* GeoJSON coordinates, [lon, lat].
Coordinates == { <<0, 0>>, <<2, 1>> }

SeqsUpTo(S, n) == UNION { [1..k -> S] : k \in 0..n }

RECURSIVE SumSeq(_)
SumSeq(l) == IF l = <<>> THEN 0 ELSE Head(l) + SumSeq(Tail(l))

\* The polygon whose coordinate arrays have the lengths lens and, one after
\* the other, the coordinates flat.
Split(flat, lens) ==
    [r \in 1..Len(lens) |->
        SubSeq(flat, SumSeq(SubSeq(lens, 1, r - 1)) + 1,
                     SumSeq(SubSeq(lens, 1, r)))]

\* Every polygon of at most MaxRings coordinate arrays (closed or not, empty
\* or not) and at most MaxPoints coordinates in all.
Polygons ==
    UNION { { Split(flat, lens) : flat \in [1..SumSeq(lens) -> Coordinates] } :
            lens \in { l \in SeqsUpTo(0..MaxPoints, MaxRings) :
                          SumSeq(l) <= MaxPoints } }

BuildInit ==
    /\ polygon \in Polygons
    /\ bpc = "idle"
    /\ paths = <<>>

\* polygonToPaths(polygon) is called and returns, or raises.
BuildPaths ==
    /\ bpc = "idle"
    /\ LET r == polygonToPaths(polygon)
       IN  /\ bpc' = IF r.threw THEN "threw" ELSE "returned"
           /\ paths' = r.value
    /\ UNCHANGED polygon
    /\ UNCHANGED <<minVars, distVars>>

BuildNext == BuildPaths

InitBuild == MinIdle /\ BuildInit /\ DistIdle

SpecBuild == InitBuild /\ [][BuildNext]_vars

(***************************************************************************)
(* lib/borderdistance.js                                                   *)
(***************************************************************************)
\* The Number a value returned by minimize is compared as: false is 0.
ToNumber(alpha) == IF alpha.conv THEN alpha.x ELSE Num(0)

\* linearCombination: the point a fraction alpha of the way from a1 to a2
\* along the geodesic, [lat, lon].  Longitudes are multiples of the
\* denominator of alpha, so the point is a point of the model.
linearCombination(lata1, lona1, lata2, lona2, alpha) ==
    << lata1 + (alpha[1] * (lata2 - lata1)) \div alpha[2],
       lona1 + (alpha[1] * (lona2 - lona1)) \div alpha[2] >>

\* if (alpha > 0 && alpha < 1)
Interior(alpha) ==
    RLt(Num(0), ToNumber(alpha)) /\ RLt(ToNumber(alpha), Num(1))

\* (mutant) the range test is dropped: any number the minimizer returns is
\* taken, as if (alpha !== false)
candidatesUnchecked(lata1, lona1, lata2, lona2, alpha) ==
    << <<lata1, lona1>>, <<lata2, lona2>> >>
        \o (IF alpha.conv
            THEN << linearCombination(lata1, lona1, lata2, lona2, alpha.x) >>
            ELSE <<>>)

\* (mutant) the endpoints are dropped when the minimizer's point is taken
candidatesInteriorOnly(lata1, lona1, lata2, lona2, alpha) ==
    IF Interior(alpha)
    THEN << linearCombination(lata1, lona1, lata2, lona2, alpha.x) >>
    ELSE << <<lata1, lona1>>, <<lata2, lona2>> >>

\* const candidates = [[lata1, lona1],[lata2, lona2]], and the minimizer's
\* point pushed when alpha is inside (0, 1).
candidates(lata1, lona1, lata2, lona2, alpha) ==
    << <<lata1, lona1>>, <<lata2, lona2>> >>
        \o (IF Interior(alpha)
            THEN << linearCombination(lata1, lona1, lata2, lona2, alpha.x) >>
            ELSE <<>>)

\* _.minBy(array, iteratee), given the iteratee's value for each element:
\* the first element whose value is the least.
minBy(array, value) ==
    LET i == CHOOSE i \in 1..Len(array) :
                /\ \A j \in 1..Len(array) : value[i] <= value[j]
                /\ \A j \in 1..(i - 1) : value[j] > value[i]
    IN  array[i]

\* return {distance: distanceBetween(closestPoint, b), point: closestPoint}
NearestResult(closestPoint, latb, lonb) ==
    [distance |-> distanceBetween(closestPoint[1], closestPoint[2], latb, lonb),
     point    |-> closestPoint]

\* const closestPoint = _.minBy(candidates, (point) => distanceBetween(point, b))
ClosestCandidate(cands, latb, lonb) ==
    minBy(cands, [i \in 1..Len(cands) |->
                    distanceBetween(cands[i][1], cands[i][2], latb, lonb)])

\* closestToGeodesic, given what minimize(f, 0.5) returned for this segment
\* and this point b.
closestToGeodesic(latb, lonb, lata1, lona1, lata2, lona2, alpha) ==
    NearestResult(
        ClosestCandidate(candidates(lata1, lona1, lata2, lona2, alpha), latb, lonb),
        latb, lonb)

\* (mutant) the bound adds the segment's length instead of subtracting it
lowerBoundPlus(segment, latb, lonb) ==
    distanceBetween(segment.end.lat, segment.end.lon, latb, lonb)
        + segment.distance

\* lowerBound: distanceBetween(segment.end, b) - segment.distance
lowerBound(segment, latb, lonb) ==
    distanceBetween(segment.end.lat, segment.end.lon, latb, lonb)
        - segment.distance

\* _.assign(_.cloneDeep(segment), {lowerBound: ...}): a new object.
WithLowerBound(segment, latb, lonb) ==
    [start      |-> segment.start,
     end        |-> segment.end,
     distance   |-> segment.distance,
     lowerBound |-> lowerBound(segment, latb, lonb)]

\* _.sortBy(array, (segment) => segment.lowerBound): a stable sort,
\* ascending (an insertion after the last element that is not greater).
RECURSIVE InsertByLowerBound(_, _)
InsertByLowerBound(array, x) ==
    IF array = <<>> THEN <<x>>
    ELSE IF x.lowerBound < Head(array).lowerBound
         THEN <<x>> \o array
         ELSE <<Head(array)>> \o InsertByLowerBound(Tail(array), x)

RECURSIVE sortByLowerBound(_)
sortByLowerBound(array) ==
    IF array = <<>> THEN <<>>
    ELSE InsertByLowerBound(sortByLowerBound(SubSeq(array, 1, Len(array) - 1)),
                            array[Len(array)])

\* The caller's array after _(segments).map(...).sortBy(...).value(): map and
\* sortBy build new arrays of the cloned objects, the argument is left alone.
(* (mutant) _.assign(segment, ...) on the caller's own objects, sorted in place *)
CallerArrayAnnotated(segments, annotated) == annotated

CallerArray(segments, annotated) == segments

\* (mutant) the comparison is written the wrong way round
PrunedReversed(segment, closestSoFar) == segment.lowerBound < closestSoFar.distance

\* (mutant) the scan stops as soon as a bound reaches the best distance
PrunedAtEqual(segment, closestSoFar) == segment.lowerBound >= closestSoFar.distance

\* if (segment.lowerBound > closestSoFar.distance) break
Pruned(segment, closestSoFar) == segment.lowerBound > closestSoFar.distance

\* (mutant) a result as close as the best one replaces it
CloserOrEqual(result, closestSoFar) == result.distance <= closestSoFar.distance

\* if (result.distance < closestSoFar.distance)
Closer(result, closestSoFar) == result.distance < closestSoFar.distance

\* What minimize returned inside closestToGeodesic for a segment.
AlphaOf(orc, segment) == orc[<<segment.start, segment.end>>]

closestOnSegment(segment, latb, lonb, orc) ==
    closestToGeodesic(latb, lonb,
                      segment.start.lat, segment.start.lon,
                      segment.end.lat, segment.end.lon,
                      AlphaOf(orc, segment))

\* The for loop from index i (1-based) with closestSoFar: the final
\* closestSoFar and the number of segments closestOnSegment was called on.
\* closestSoFar after the loop body has run on result.
Update(result, closestSoFar) ==
    IF Closer(result, closestSoFar) THEN result ELSE closestSoFar

\* The for loop from index i (1-based) with closestSoFar: the final
\* closestSoFar and the number of segments closestOnSegment was called on.
RECURSIVE Scan(_, _, _, _, _, _)
Scan(segs, i, closestSoFar, latb, lonb, orc) ==
    IF i > Len(segs) \/ Pruned(segs[i], closestSoFar)
    THEN [closestSoFar |-> closestSoFar, evaluated |-> i - 1]
    ELSE Scan(segs, i + 1,
              Update(closestOnSegment(segs[i], latb, lonb, orc), closestSoFar),
              latb, lonb, orc)

NoResult == [distance |-> 0, point |-> <<0, 0>>]

\* The outcome of a call: what it returns or raises, its local sorted array,
\* the number of segments it evaluated and the caller's array afterwards.
Outcome(threw, error, value, local, n, caller) ==
    [threw |-> threw, error |-> error, value |-> value,
     sorted |-> local, evaluated |-> n, caller |-> caller]

Returns(s, local, caller) ==
    Outcome(FALSE, "none", s.closestSoFar, local, s.evaluated, caller)

\* (mutant) an empty array is answered with a distance of zero
EmptyOutcomeZero(local, caller) ==
    Outcome(FALSE, "none", NoResult, local, 0, caller)

\* closestOnSegment(segments[0]) on an empty array reads undefined.start,
\* which raises a TypeError.
EmptyOutcome(local, caller) ==
    Outcome(TRUE, "TypeError", NoResult, local, 0, caller)

\* distanceToBorder from line 103 on, with the sorted local array.
ScanSorted(local, caller, latb, lonb, orc) ==
    IF local = <<>>
    THEN EmptyOutcome(local, caller)
    ELSE Returns(Scan(local, 2, closestOnSegment(local[1], latb, lonb, orc),
                      latb, lonb, orc),
                 local, caller)

\* segments = _(segments).map(...).sortBy(...).value()
SortedCopy(segments, latb, lonb) ==
    sortByLowerBound([i \in 1..Len(segments) |->
                        WithLowerBound(segments[i], latb, lonb)])

AfterSort(segments, local, latb, lonb, orc) ==
    ScanSorted(local, CallerArray(segments, local), latb, lonb, orc)

distanceToBorder(segments, latb, lonb, orc) ==
    AfterSort(segments, SortedCopy(segments, latb, lonb), latb, lonb, orc)

\* ---- inputs ----
MaxSegs == 2

\* Segments whose distance is the geodesic length of (start, end), as
\* process.js writes them.
Segments ==
    { [start |-> Point(0, a), end |-> Point(0, b),
       distance |-> distanceBetween(0, a, 0, b)] : a \in Lons, b \in Lons }

Borders == SeqsUpTo(Segments, MaxSegs)

QueryPoints == { Point(0, lon) : lon \in -1..5 }

\* The values minimize can return (SpecMin): false, or a finite number.
\* Halves and whole numbers from -1/2 to 3/2 stand for the numbers below 0,
\* at 0, inside (0, 1), at 1 and above 1.
AllMinimizeReturns ==
    { NotConverged } \cup { Returned(Norm(k, 2)) : k \in -1..3 }

\* One value for each path through closestToGeodesic.
MinimizeReturns == { NotConverged, Returned(<<1, 2>>), Returned(<<3, 2>>) }

SegmentKeys(segments) ==
    { <<segments[i].start, segments[i].end>> : i \in 1..Len(segments) }

\* The state before a call on the array segments.
Loaded(segments) ==
    /\ border = segments
    /\ given = segments
    /\ pc = "idle"
    /\ q = Point(0, 0)
    /\ oracle = <<>>
    /\ sorted = <<>>
    /\ evaluated = 0
    /\ ret = NoResult
    /\ err = "none"

\* The state a call of distanceToBorder(border, b.lat, b.lon) leaves.
Call(b, orc) ==
    \E r \in {distanceToBorder(border, b.lat, b.lon, orc)} :
        /\ given' = border
        /\ q' = b
        /\ oracle' = orc
        /\ pc' = IF r.threw THEN "threw" ELSE "returned"
        /\ err' = r.error
        /\ ret' = r.value
        /\ sorted' = r.sorted
        /\ evaluated' = r.evaluated
        /\ border' = r.caller

\* distanceToBorder(border, b.lat, b.lon) is called and returns, or raises.
\* minimize is a function of its arguments: equal segments get equal alphas.
DistanceToBorder ==
    /\ pc = "idle"
    /\ \E b \in QueryPoints :
       \E orc \in [SegmentKeys(border) -> MinimizeReturns] : Call(b, orc)
    /\ UNCHANGED <<minVars, buildVars>>

Next == DistanceToBorder

Init == MinIdle /\ BuildIdle /\ \E segments \in Borders : Loaded(segments)

Spec == Init /\ [][Next]_vars

\* ---- closestToGeodesic on its own ----
\* closestToGeodesic(b.lat, b.lon, start.lat, start.lon, end.lat, end.lon) is
\* called for the one segment of border; minimize returns alpha.
ClosestToGeodesic ==
    /\ pc = "idle"
    /\ \E b \in QueryPoints : \E alpha \in AllMinimizeReturns :
          /\ q' = b
          /\ oracle' = [k \in SegmentKeys(border) |-> alpha]
          /\ ret' = closestOnSegment(border[1], b.lat, b.lon, oracle')
    /\ pc' = "returned"
    /\ evaluated' = 1
    /\ UNCHANGED <<border, given, sorted, err>>
    /\ UNCHANGED <<minVars, buildVars>>

NextSolver == ClosestToGeodesic

InitSolver ==
    MinIdle /\ BuildIdle /\ \E segment \in Segments : Loaded(<<segment>>)

SpecSolver == InitSolver /\ [][NextSolver]_vars

\* ---- many far segments and one close segment ----
MaxFar == 4

\* n copies of far with close put in at position k.
FarBorder(far, n, close, k) ==
    [i \in 1..(n + 1) |-> IF i = k THEN close ELSE far]

FarBorders ==
    { FarBorder(far, n, close, k) :
        far \in Segments, close \in Segments,
        n \in 0..MaxFar, k \in 1..(MaxFar + 1) }

InitFar == MinIdle /\ BuildIdle /\ \E segments \in FarBorders : Loaded(segments)

SpecFar == InitFar /\ [][Next]_vars

(***************************************************************************)
(* borderdistance.js (the older, browser implementation)                   *)
(*                                                                         *)
(* BorderDistance.distanceToBorder(latb, lonb) works on the shared array   *)
(* BorderDistance.segments: border is that array, given is the array as it *)
(* was loaded.  getClosestPointAndDistanceOnSegment takes the first least  *)
(* of the same candidates as closestToGeodesic, and the loop prunes and    *)
(* replaces as the loop of lib/borderdistance.js does.                     *)
(***************************************************************************)
\* segments[i].lowerBound = geod.Inverse(end, b).s12 - segments[i].distance:
\* written on the shared object itself.
LegacySetLowerBound(segment, latb, lonb) ==
    [start      |-> segment.start,
     end        |-> segment.end,
     distance   |-> segment.distance,
     lowerBound |-> distanceBetween(segment.end.lat, segment.end.lon, latb, lonb)
                        - segment.distance]

\* The first loop: every segment of the shared array gets its lowerBound.
LegacyAnnotated(segments, latb, lonb) ==
    [i \in 1..Len(segments) |-> LegacySetLowerBound(segments[i], latb, lonb)]

\* segments.sort(comparator on lowerBound), in place.  Segments the
\* comparator finds equal keep the order the array had before the call.
LegacySorted(segments) == sortByLowerBound(segments)

\* From "Find the distance to the first segment" on: the local name segments
\* is the shared array, so the array the caller sees is the sorted one.
LegacyScan(shared, latb, lonb, orc) ==
    ScanSorted(shared, shared, latb, lonb, orc)

legacyDistanceToBorder(segments, latb, lonb, orc) ==
    LegacyScan(LegacySorted(LegacyAnnotated(segments, latb, lonb)),
               latb, lonb, orc)

\* ---- inputs ----
LegacyLons == {0, 2}

LegacySegments ==
    { s \in Segments : s.start.lon \in LegacyLons /\ s.end.lon \in LegacyLons }

\* BorderDistance.segments as loaded: one segment or more.
LegacyBorders == SeqsUpTo(LegacySegments, MaxSegs) \ { <<>> }

LegacyQueryPoints == { Point(0, lon) : lon \in -1..3 }

LegacyMinimizeReturns == { NotConverged, Returned(<<1, 2>>) }

\* The array is loaded and no call has been made.  What newtonMinimization
\* returns may differ from segment to segment; the model lets it be the
\* same for every query point.
LegacyLoaded(segments, orc) ==
    /\ border = segments
    /\ given = segments
    /\ pc = "idle"
    /\ q = Point(0, 0)
    /\ oracle = orc
    /\ sorted = <<>>
    /\ evaluated = 0
    /\ ret = NoResult
    /\ err = "none"

\* BorderDistance.distanceToBorder(b.lat, b.lon), the first call or a later
\* one: the shared array is left annotated and sorted for b.
LegacyDistanceToBorder ==
    /\ pc \in {"idle", "returned"}
    /\ \E b \in LegacyQueryPoints :
       \E r \in {legacyDistanceToBorder(border, b.lat, b.lon, oracle)} :
            /\ q' = b
            /\ pc' = IF r.threw THEN "threw" ELSE "returned"
            /\ err' = r.error
            /\ ret' = r.value
            /\ sorted' = r.sorted
            /\ evaluated' = r.evaluated
            /\ border' = r.caller
    /\ UNCHANGED <<given, oracle>>
    /\ UNCHANGED <<minVars, buildVars>>

NextLegacy == LegacyDistanceToBorder

InitLegacy ==
    /\ MinIdle
    /\ BuildIdle
    /\ \E segments \in LegacyBorders :
       \E orc \in [SegmentKeys(segments) -> LegacyMinimizeReturns] :
            LegacyLoaded(segments, orc)

SpecLegacy == InitLegacy /\ [][NextLegacy]_vars

(***************************************************************************)
(* Claims about the minimizer, checked under SpecMin.                      *)
(***************************************************************************)
OneTenth == <<1, 10>>

\* |a - b| <= m
Within(a, b, m) == IsFinite(a) /\ IsFinite(b) /\ ~RLt(m, RAbs(RSub(a, b)))

\* No two successive iterates kept in points are within the margin.
NoEarlierConvergence ==
    \A k \in 1..(Len(points) - 1) :
        ~RLt(RAbs(RSub(points[k], points[k + 1])), CONVERGENCE_MARGIN)

\* C3: for f(x) = (x - c)^2 and any initial guess, minimize returns a number
\* within 0.1 of c and not the sentinel false (the test: c = 10, guess 0).
C3_QuadraticWithinTenth ==
    (mpc # "loop" /\ mf.kind = "quad" /\ mf.s = 1 /\ ~mf.throws)
        => (mpc = "returned" /\ mret.conv /\ Within(mret.x, Num(mf.c), OneTenth))

\* C4: minimize performs at most NUM_ITERS Newton updates; a number it
\* returns is the first iterate within the margin of its predecessor, and
\* nothing runs after the return; when no update raised and none of the
\* NUM_ITERS updates was within the margin it returns false.
C4_AtMostNumItersUpdates ==
    /\ updates <= NUM_ITERS
    /\ Len(divisors) = updates
    /\ (mpc = "returned" /\ mret.conv) =>
          /\ Len(points) = updates
          /\ RLt(RAbs(RSub(points[Len(points)], mret.x)), CONVERGENCE_MARGIN)
          /\ NoEarlierConvergence
    /\ (mpc = "returned" /\ ~mret.conv /\ ~caught) =>
          /\ updates = NUM_ITERS
          /\ Len(points) = updates + 1
          /\ NoEarlierConvergence
    /\ (mpc = "loop" /\ updates < NUM_ITERS) => NoEarlierConvergence
    /\ mpc # "loop" => ~ENABLED MinNext

\* C4 witness: the loop ran NUM_ITERS updates on finite iterates, none within
\* the margin, and returned false.
C4_Witness ==
    /\ mpc = "returned"
    /\ ~mret.conv
    /\ updates = NUM_ITERS
    /\ \A k \in 1..Len(points) : IsFinite(points[k])

\* The second-derivative estimate some update divided by was exactly zero.
DividedByZero == \E k \in 1..Len(divisors) : divisors[k] = Num(0)

\* The claim names no threshold for "near zero"; one thousandth is taken.
NearZero == <<1, 1000>>

DividedByNearZero ==
    \E k \in 1..Len(divisors) : RLt(RAbs(divisors[k]), NearZero)

\* C5 (as claimed): when a call of f raised, or an update divided by a zero
\* or near-zero second-derivative estimate, minimize returns false; it never
\* throws and never returns a number.
C5_FalseOnErrorOrNearZero ==
    /\ mpc # "threw"
    /\ (mpc = "returned" /\ (caught \/ DividedByNearZero)) => ~mret.conv

\* C5 (amended): when a call of f raised, or an update divided by a
\* second-derivative estimate that is exactly zero, minimize returns false;
\* it never throws and never returns a number.
C5_FalseOnErrorOrZero ==
    /\ mpc # "threw"
    /\ (mpc = "returned" /\ (caught \/ DividedByZero)) => ~mret.conv

\* C5 witness: an update divided by zero and minimize has returned.
C5_Witness == mpc = "returned" /\ DividedByZero /\ ~mret.conv

(***************************************************************************)
(* Claims about distanceToBorder and closestToGeodesic.                    *)
(***************************************************************************)
\* What closestOnSegment returns for the i-th segment of the caller's array,
\* for the point and the minimizer of the call that was made.
Close(i) == closestOnSegment(border[i], q.lat, q.lon, oracle)

Least(S) == CHOOSE m \in S : \A n \in S : m <= n

\* The distances of an exhaustive evaluation: every segment, no pruning.
ExhaustiveDistances == { Close(i).distance : i \in 1..Len(border) }

\* C1: for every non-empty border whose segments store their true length
\* and every query point, the distance distanceToBorder returns is the
\* minimum over all segments of closestToGeodesic(query, segment).distance.
C1_PruningKeepsTheMinimum ==
    pc = "returned" => ret.distance = Least(ExhaustiveDistances)

\* C1: a call that pruned a segment, on a border whose first segment is not
\* the closest one.
C1_Witness ==
    /\ pc = "returned"
    /\ evaluated < Len(border)
    /\ Close(1).distance > ret.distance

\* C2: whatever the minimizer returns (a number inside or outside (0, 1), or
\* false), the distance closestToGeodesic returns is at most the distance
\* from the query point to the segment's start and to the segment's end.
C2_NoFartherThanEndpoints ==
    pc = "returned" =>
        /\ ret.distance <= distanceBetween(border[1].start.lat, border[1].start.lon,
                                           q.lat, q.lon)
        /\ ret.distance <= distanceBetween(border[1].end.lat, border[1].end.lon,
                                           q.lat, q.lon)

\* C2: the minimizer's point, inside the segment, is strictly closer than
\* both ends.
C2_Witness ==
    /\ pc = "returned"
    /\ Interior(AlphaOf(oracle, border[1]))
    /\ ret.distance < distanceBetween(border[1].start.lat, border[1].start.lon,
                                      q.lat, q.lon)
    /\ ret.distance < distanceBetween(border[1].end.lat, border[1].end.lon,
                                      q.lat, q.lon)

\* C6 (as stated): distanceToBorder on a border of zero segments fails with an
\* EmptyBorder error and never returns a result.
C6_EmptyBorderError ==
    (pc # "idle" /\ given = <<>>) => (pc = "threw" /\ err = "EmptyBorder")

\* C6 (amended): distanceToBorder on a border of zero segments never returns
\* a result: it raises the TypeError of reading the first segment's start,
\* and no border of one or more segments raises.
C6_EmptyBorderTypeError ==
    pc # "idle" =>
        /\ given = <<>> => (pc = "threw" /\ err = "TypeError")
        /\ given # <<>> => (pc = "returned" /\ err = "none")

\* C6: the call on the empty border has raised.
C6_Witness == pc = "threw" /\ given = <<>>

Fields(segment) == DOMAIN segment

OthersFar(k) ==
    \A i \in (1..Len(border)) \ {k} :
        lowerBound(border[i], q.lat, q.lon) > Close(k).distance

\* C10: on a border of N far segments and one close segment c, where every
\* far segment's lowerBound is greater than closestToGeodesic(query, c)'s
\* distance, distanceToBorder returns c's result having called the solver on
\* one segment, whatever N is.
C10_FarSegmentsNotEvaluated ==
    pc = "returned" =>
        \A k \in 1..Len(border) :
            OthersFar(k) => (evaluated = 1 /\ ret = Close(k))

\* C10: the most far segments the model has, the close one last in the
\* caller's array.
C10_Witness ==
    /\ pc = "returned"
    /\ Len(border) = MaxFar + 1
    /\ OthersFar(Len(border))
    /\ evaluated = 1

(***************************************************************************)
(* Claims about the Segment Builder, checked under SpecBuild.              *)
(***************************************************************************)
\* A valid closed ring: two coordinates or more, the first equal to the last.
ValidClosedRing(ring) == Len(ring) >= 2 /\ ring[1] = ring[Len(ring)]

InvalidRing(ring) == ~ValidClosedRing(ring)

TotalPoints == SumSeq([r \in 1..Len(polygon) |-> Len(polygon[r])])

\* The consecutive pairs of a ring of n coordinates: n - 1, none when n < 2.
PairCount(ring) == IF Len(ring) < 2 THEN 0 ELSE Len(ring) - 1

\* The consecutive pairs of the rings before ring r.
PairsBefore(r) == SumSeq([i \in 1..(r - 1) |-> PairCount(polygon[i])])

\* segment goes from the coordinate from to the coordinate to ([lon, lat]).
Joins(segment, from, to) ==
    /\ segment.start = Point(from[2], from[1])
    /\ segment.end = Point(to[2], to[1])

\* For every ring, the k-th segment of the ring's part of paths goes from
\* coordinate k to coordinate k + 1 of that ring.
RingByRing ==
    \A r \in 1..Len(polygon) : \A k \in 1..PairCount(polygon[r]) :
        Joins(paths[PairsBefore(r) + k], polygon[r][k], polygon[r][k + 1])

\* Consecutive segments of a ring are chained.
Chained ==
    \A r \in 1..Len(polygon) : \A k \in 1..(PairCount(polygon[r]) - 1) :
        paths[PairsBefore(r) + k].end = paths[PairsBefore(r) + k + 1].start

\* C7: for every list of valid closed rings polygonToPaths emits exactly
\* totalPoints - ringCount segments: for a ring of n coordinates the n - 1
\* segments whose k-th member goes from coordinate k to coordinate k + 1 of
\* that ring, so that a ring's segments are chained and no segment joins two
\* rings.
C7_ConsecutivePairsOfEachRing ==
    (bpc # "idle" /\ \A r \in 1..Len(polygon) : ValidClosedRing(polygon[r])) =>
        /\ bpc = "returned"
        /\ Len(paths) = TotalPoints - Len(polygon)
        /\ RingByRing
        /\ Chained

\* C7: two valid closed rings, the first of three coordinates or more, that
\* end and start at different coordinates.
C7_Witness ==
    /\ bpc = "returned"
    /\ Len(polygon) = 2
    /\ \A r \in 1..2 : ValidClosedRing(polygon[r])
    /\ Len(polygon[1]) >= 3
    /\ polygon[1][1] # polygon[1][2]
    /\ polygon[1][Len(polygon[1])] # polygon[2][1]

\* C8 (as stated): a ring with fewer than 2 coordinates, or whose first
\* coordinate differs from its last, makes the build fail; no segment list is
\* put out for it.
C8_InvalidRingsRejected ==
    (bpc # "idle" /\ \E r \in 1..Len(polygon) : InvalidRing(polygon[r])) =>
        bpc = "threw"

\* C8 (amended): the build never fails on an invalid ring.  A ring with fewer
\* than 2 coordinates adds no segment, and a ring of n >= 2 coordinates whose
\* first differs from its last adds its n - 1 consecutive pairs, no closing
\* segment.
C8_InvalidRingsAccepted ==
    (bpc # "idle" /\ \E r \in 1..Len(polygon) : InvalidRing(polygon[r])) =>
        /\ bpc = "returned"
        /\ Len(paths) = PairsBefore(Len(polygon) + 1)
        /\ RingByRing

\* C8: a ring of three coordinates that is not closed and a ring of fewer
\* than two coordinates, built into the first ring's two segments.
C8_Witness ==
    /\ bpc = "returned"
    /\ \E r \in 1..Len(polygon) :
          Len(polygon[r]) >= 3 /\ polygon[r][1] # polygon[r][Len(polygon[r])]
    /\ \E r \in 1..Len(polygon) : Len(polygon[r]) < 2
    /\ Len(paths) = 2

(***************************************************************************)
(* Claims about the scan of distanceToBorder.                              *)
(***************************************************************************)
\* What closestOnSegment returns for the j-th segment of the sorted array.
CloseSorted(j) == closestOnSegment(sorted[j], q.lat, q.lon, oracle)

\* The best distance among the first n segments of the sorted array.
BestOfPrefix(n) == Least({ CloseSorted(j).distance : j \in 1..n })

\* C11: the solver is invoked on a prefix of the lowerBound-sorted list: the
\* scan goes on while the next lowerBound is at most the best distance so
\* far, stops at the first segment whose lowerBound is strictly greater, and
\* every segment left unevaluated has a lowerBound strictly greater than the
\* distance returned.
C11_SolverRunsOnPrefix ==
    pc = "returned" =>
        /\ evaluated \in 1..Len(sorted)
        /\ \A i \in 2..evaluated : sorted[i].lowerBound <= BestOfPrefix(i - 1)
        /\ evaluated < Len(sorted) =>
              sorted[evaluated + 1].lowerBound > BestOfPrefix(evaluated)
        /\ \A i \in (evaluated + 1)..Len(sorted) :
              sorted[i].lowerBound > ret.distance

\* C11: a scan that evaluated two segments or more and left some unevaluated.
C11_Witness ==
    /\ pc = "returned"
    /\ evaluated >= 2
    /\ evaluated < Len(sorted)

Orderings(n) ==
    { p \in [1..n -> 1..n] : \A i, j \in 1..n : p[i] = p[j] => i = j }

\* The sorted array holds the caller's segments, each with its lowerBound, in
\* ascending (lowerBound, original index) order.
StablySorted ==
    \E p \in Orderings(Len(given)) :
        /\ Len(sorted) = Len(given)
        /\ \A i \in 1..Len(sorted) :
              sorted[i] = WithLowerBound(given[p[i]], q.lat, q.lon)
        /\ \A i, j \in 1..Len(sorted) :
              i < j => \/ sorted[i].lowerBound < sorted[j].lowerBound
                       \/ /\ sorted[i].lowerBound = sorted[j].lowerBound
                          /\ p[i] < p[j]

\* The first segment, in sorted order, that attains the least distance.
FirstClosest ==
    CHOOSE k \in 1..Len(sorted) :
        /\ CloseSorted(k).distance = BestOfPrefix(Len(sorted))
        /\ \A j \in 1..(k - 1) : CloseSorted(j).distance > CloseSorted(k).distance

\* C12: segments are evaluated in ascending lowerBound order, equal
\* lowerBounds in input order, and the best result is replaced only by a
\* strictly smaller distance: the point returned is that of the first
\* segment, in (lowerBound, original index) order, that attains the minimum.
C12_FirstOfTiesWins ==
    pc = "returned" =>
        /\ StablySorted
        /\ ret = CloseSorted(FirstClosest)

\* C12: two different segments with the same lowerBound attain the minimum
\* distance at different points.
C12_Witness ==
    /\ pc = "returned"
    /\ \E i, j \in 1..Len(sorted) :
          /\ i < j
          /\ sorted[i].lowerBound = sorted[j].lowerBound
          /\ CloseSorted(i).distance = ret.distance
          /\ CloseSorted(j).distance = ret.distance
          /\ CloseSorted(i).point # CloseSorted(j).point

(***************************************************************************)
(* Claims about the fallback of closestToGeodesic, checked under           *)
(* SpecSolver.                                                             *)
(***************************************************************************)
\* What minimize returned in the call that was made.
Alpha == AlphaOf(oracle, border[1])

\* The minimizer returned a number strictly between 0 and 1.
NumberInsideUnitInterval(alpha) ==
    alpha.conv /\ IsFinite(alpha.x) /\ 0 < alpha.x[1] /\ alpha.x[1] < alpha.x[2]

StartPoint == << border[1].start.lat, border[1].start.lon >>
EndPoint   == << border[1].end.lat, border[1].end.lon >>

\* The candidates of the call that was made.
CandidatesOfCall ==
    candidates(border[1].start.lat, border[1].start.lon,
               border[1].end.lat, border[1].end.lon, Alpha)

\* C13: the candidates are the segment's start and end, and the minimizer's
\* point exactly when the minimizer returned a number alpha with
\* 0 < alpha < 1; when it returned false or a number outside (0, 1) the point
\* returned is one of the two ends; the call always returns a point with a
\* distance, never the sentinel and never an error.
C13_FallbackToEndpoints ==
    pc # "idle" =>
        /\ pc = "returned"
        /\ err = "none"
        /\ ret.distance \in Nat
        /\ ret.distance = distanceBetween(ret.point[1], ret.point[2], q.lat, q.lon)
        /\ CandidatesOfCall[1] = StartPoint
        /\ CandidatesOfCall[2] = EndPoint
        /\ Len(CandidatesOfCall) = IF NumberInsideUnitInterval(Alpha) THEN 3 ELSE 2
        /\ ret.point \in { CandidatesOfCall[i] : i \in 1..Len(CandidatesOfCall) }
        /\ ~NumberInsideUnitInterval(Alpha) => ret.point \in {StartPoint, EndPoint}

\* C13: the minimizer failed, or gave a number outside (0, 1), on a segment
\* whose inside is closer to the query point than both ends.
C13_Witness ==
    /\ pc = "returned"
    /\ ~NumberInsideUnitInterval(Alpha)
    /\ StartPoint # EndPoint
    /\ \E lon \in Lons :
          /\ distanceBetween(0, lon, q.lat, q.lon) < ret.distance
          /\ (border[1].start.lon < lon /\ lon < border[1].end.lon)

(***************************************************************************)
(* Claim about the second-derivative estimate, checked under SpecMin.      *)
(***************************************************************************)
\* The central difference of the first-derivative estimator at x, both inner
\* estimates taken with the step h.
SymmetricSecondDifference(f, x, h) ==
    RDiv(RSub(estimateFirstDerivative(f, RAdd(x, h), h),
              estimateFirstDerivative(f, RSub(x, h), h)),
         RMul(Num(2), h))

\* C14: at every iterate x, x = 0 included, both inner first-derivative
\* estimates of the second-derivative estimate use the fixed step 0.01, the
\* step of the outer difference: the step never depends on x, and the
\* estimate is the symmetric central difference with that step.
C14_InnerStepIsFixed ==
    \A k \in 1..Len(divisors) :
        /\ InnerStepSize(points[k], STEP_SIZE) = STEP_SIZE
        /\ divisors[k] = SymmetricSecondDifference(mf, points[k], STEP_SIZE)

(***************************************************************************)
(* Claim about the older implementation, checked under SpecLegacy.         *)
(***************************************************************************)
\* What the call just made would have returned on the array as loaded.
OnFreshList == legacyDistanceToBorder(given, q.lat, q.lon, oracle).value

\* C15: after any sequence of earlier calls, BorderDistance.distanceToBorder
\* returns for a query point the same point and the same distance as it
\* returns for that point on the freshly loaded segment list.
C15_ResultIndependentOfHistory ==
    pc = "returned" => ret = OnFreshList

====
